---- MODULE Spec2Model ----
(***************************************************************************)
(* A model of the paper-processing pipeline of GenerateTXT.py: main()      *)
(* submits one process_paper task per paper to a thread pool; each task    *)
(* extracts the paper's text, creates the paper's output folder and runs   *)
(* the demands in order, each completion call (query_deepseek, with its    *)
(* retries) made while holding a slot of the rate-limiter semaphore.       *)
(***************************************************************************)
EXTENDS Integers, Sequences, FiniteSets, TLC

(***************************************************************************)
(* Sizes.  The source runs 10 pool threads over 8 demands; the model keeps  *)
(* the structure and scales the numbers.                                   *)
(***************************************************************************)
\* papers of the largest run
NumPapers == 3
\* len(DEMANDS), 8 in the source (GenerateTXT.py:29-38)
NumDemands == 2
\* MAX_WORKERS, 10 in the source (GenerateTXT.py:21)
MAX_WORKERS == 2
\* query_deepseek's retries parameter (GenerateTXT.py:164)
retries == 3
\* runs of the pipeline over one output root
MaxRuns == 2
\* pages of a Mendeley listing, and documents on a page
MaxPages == 2
MaxPageLen == 2
\* category folders under the root given to Finalize.py
NumCategories == 2
\* fetch_all_metadata's ThreadPoolExecutor(max_workers=5) (Finalize.py:142)
META_WORKERS == 5

Papers == 1..NumPapers
Demands == 1..NumDemands

None == "<None>"
NotCalled == "<NotCalled>"
Malformed == "<Malformed>"
Escaped == "<Escaped>"
NotExtracted == <<"<NotExtracted>">>
Raised == <<"<Raised>">>

(***************************************************************************)
(* Titles and extracted texts are sequences of characters.                 *)
(***************************************************************************)
AlnumChars == {"a", "b", "c", "x"}
Whitespace == {" "}
TitlePool == << <<"a">>, <<"a", "?">>, <<"b">>, <<" ", "c">> >>
ExtractedTexts == { <<>>, <<" ">>, <<"x">> }

\* c.isalnum()
isalnum(c) == c \in AlnumChars

RECURSIVE lstrip(_)
lstrip(s) ==
    IF s # <<>> /\ Head(s) \in Whitespace THEN lstrip(Tail(s)) ELSE s

RECURSIVE rstrip(_)
rstrip(s) ==
    IF s # <<>> /\ s[Len(s)] \in Whitespace
    THEN rstrip(SubSeq(s, 1, Len(s) - 1))
    ELSE s

\* str.strip()
strip(s) == rstrip(lstrip(s))

safe_keep(c) == isalnum(c) \/ c \in {" ", ".", "_", "-"}

\* safe_title = "".join(c for c in title if c.isalnum() or c in " ._-").strip()
safe_title(title) == strip(SelectSeq(title, safe_keep))

\* f"{idx:02d}"
pad2(i) == IF i < 10 THEN <<0, i>> ELSE IF i < 100 THEN <<i \div 10, i % 10>>
           ELSE <<i \div 100, (i \div 10) % 10, i % 10>>

\* os.path.join(paper_folder, f"demand_{idx:02d}.txt")
out_file(title, i) == [dir |-> safe_title(title), file |-> <<"demand_">> \o pad2(i)]

\* the text written to a result file: header lines, then the response
file_content(title, i, response) == [paper |-> title, demand |-> i, body |-> response]

\* "if response:" on a str-or-None
truthy(response) == response # None /\ response # ""

\* the emptiness test without the strip
has_text_unstripped(text) == text # <<>>

\* "if not text.strip(): return"
has_text(text) == strip(text) # <<>>

(***************************************************************************)
(* The completion API, as query_deepseek sees one attempt.                  *)
(***************************************************************************)
Response(status, content) == [exc |-> FALSE, status |-> status, content |-> content]
NetworkError == [exc |-> TRUE, status |-> 0, content |-> Malformed]

\* an API that always answers with a text
HappyApi == { Response(200, "a") }
\* an API that answers with a text, an empty text, or fails for good or for now
CoarseApi == HappyApi \cup { Response(200, ""), Response(402, Malformed),
                             Response(500, Malformed) }
\* every behaviour query_deepseek tells apart
RichApi == CoarseApi \cup { Response(200, Malformed), Response(201, "a"),
                            Response(404, Malformed), NetworkError }

\* the API behaviours explored for a run of n papers: the smaller the run,
\* the more behaviours
ApiFor(n) == IF n = 1 THEN RichApi ELSE IF n = 2 THEN CoarseApi ELSE HappyApi

\* a fixed delay in place of the exponential one
backoff_fixed(attempt) == 2

\* time.sleep(2 ** attempt)
backoff(attempt) == 2 ^ attempt

NoQuery == [attempt |-> 0, sleeps |-> <<>>, hist |-> <<>>,
            returned |-> FALSE, result |-> None, kind |-> "idle"]

\* the loop's tail with one attempt too many before giving up
retry_or_give_up_late(q, r) ==
    LET slept == Append(q.sleeps, backoff(q.attempt)) IN
    IF q.attempt + 1 <= retries
    THEN [q EXCEPT !.attempt = q.attempt + 1, !.sleeps = slept,
                   !.hist = Append(q.hist, r)]
    ELSE [q EXCEPT !.attempt = q.attempt + 1, !.sleeps = slept,
                   !.hist = Append(q.hist, r),
                   !.returned = TRUE, !.result = None, !.kind = "exhausted"]

\* the loop's tail after a failed attempt: sleep, then the next attempt or
\* the "return None" after the loop
retry_or_give_up(q, r) ==
    LET slept == Append(q.sleeps, backoff(q.attempt)) IN
    IF q.attempt + 1 < retries
    THEN [q EXCEPT !.attempt = q.attempt + 1, !.sleeps = slept,
                   !.hist = Append(q.hist, r)]
    ELSE [q EXCEPT !.attempt = q.attempt + 1, !.sleeps = slept,
                   !.hist = Append(q.hist, r),
                   !.returned = TRUE, !.result = None, !.kind = "exhausted"]

\* the iteration with status 402 handled like any other failure status
query_attempt_retry_402(q, r) ==
    IF r.exc THEN retry_or_give_up(q, r)
    ELSE IF r.status = 200
         THEN IF r.content = Malformed
              THEN retry_or_give_up(q, r)
              ELSE [q EXCEPT !.hist = Append(q.hist, r), !.returned = TRUE,
                             !.result = r.content, !.kind = "text"]
         ELSE retry_or_give_up(q, r)

\* the iteration with resp.json() and the indexing outside the try
query_attempt_decode_unguarded(q, r) ==
    IF r.exc THEN retry_or_give_up(q, r)
    ELSE IF r.status = 200
         THEN IF r.content = Malformed
              THEN [q EXCEPT !.hist = Append(q.hist, r), !.returned = TRUE,
                             !.result = Escaped, !.kind = "raised"]
              ELSE [q EXCEPT !.hist = Append(q.hist, r), !.returned = TRUE,
                             !.result = r.content, !.kind = "text"]
         ELSE IF r.status = 402
              THEN [q EXCEPT !.hist = Append(q.hist, r), !.returned = TRUE,
                             !.result = None, !.kind = "quota"]
              ELSE retry_or_give_up(q, r)

\* one iteration of "for attempt in range(retries)" on API behaviour r
query_attempt(q, r) ==
    IF r.exc THEN retry_or_give_up(q, r)
    ELSE IF r.status = 200
         THEN IF r.content = Malformed
              THEN retry_or_give_up(q, r)
              ELSE [q EXCEPT !.hist = Append(q.hist, r), !.returned = TRUE,
                             !.result = r.content, !.kind = "text"]
         ELSE IF r.status = 402
              THEN [q EXCEPT !.hist = Append(q.hist, r), !.returned = TRUE,
                             !.result = None, !.kind = "quota"]
              ELSE retry_or_give_up(q, r)

\* both limits sized one above MAX_WORKERS
main_limits_oversized == [slots |-> MAX_WORKERS + 1, pool |-> MAX_WORKERS + 1]

\* the semaphore sized one below the pool
main_limits_fewer_slots == [slots |-> MAX_WORKERS - 1, pool |-> MAX_WORKERS]

\* rate_limiter = Semaphore(MAX_WORKERS); ThreadPoolExecutor(max_workers=MAX_WORKERS)
main_limits == [slots |-> MAX_WORKERS, pool |-> MAX_WORKERS]

\* the loop staying on a demand whose call failed
next_idx_retry_failed(i, response) == IF truthy(response) THEN i + 1 ELSE i

\* the loop variable after "for idx, demand in enumerate(DEMANDS, 1)" advances
next_idx(i, response) == i + 1

VARIABLES
    np,        \* number of papers main() found
    api,       \* what the completion API may answer in this run
    title,     \* title of each paper
    run,       \* 1 for the first run over the output root, 2 for a re-run
    mainpc,    \* position of main(): "submit", "wait", "report"
    nsub,      \* futures submitted so far
    sem,       \* free slots of rate_limiter
    pc,        \* position of each process_paper task
    text,      \* what extraction gave for each paper
    idx,       \* the demand index of each task's loop
    q,         \* the query_deepseek call of each task
    calls,     \* per paper and demand: query_deepseek invocations of this run
    outcome,   \* per paper and demand: what query_deepseek returned
    made_dir,  \* per paper: os.makedirs(paper_folder) was reached
    wrote,     \* per paper: the result files the task wrote
    dirs,      \* paper folders under OUTPUT_DIR
    store,     \* result files under OUTPUT_DIR: path -> content
    prev,      \* what the previous run left: its texts, outcomes and store
    env,       \* the credentials in the environment and the chosen source
    results,   \* per paper: what future.result() did in main()
    disc,      \* the get_mendeley_papers call in progress
    fin        \* the run of Finalize.py over the output root

vars == <<np, api, title, run, mainpc, nsub, sem, pc, text, idx, q, calls,
          outcome, made_dir, wrote, dirs, store, prev, env, results, disc,
          fin>>

EmptyStore == [x \in {} |-> None]

Active == {"extract", "acquire", "call", "save"}
Terminal == {"completed", "skipped", "failed"}

\* strictly increasing picks from the pool: a listing of n distinct papers
TitleLists(n) ==
    { t \in [Papers -> 1..Len(TitlePool)] :
        /\ \A p \in Papers : p > n => t[p] = 1
        /\ \A p, r \in 1..n : p < r => t[p] < t[r] }

\* the state main() sets up before the first submit
Fresh ==
    [mainpc |-> "submit", nsub |-> 0, sem |-> main_limits.slots,
     pc |-> [p \in Papers |-> "unsubmitted"],
     text |-> [p \in Papers |-> NotExtracted],
     idx |-> [p \in Papers |-> 0],
     q |-> [p \in Papers |-> NoQuery],
     calls |-> [p \in Papers |-> [d \in Demands |-> 0]],
     outcome |-> [p \in Papers |-> [d \in Demands |-> NotCalled]],
     made_dir |-> [p \in Papers |-> FALSE],
     wrote |-> [p \in Papers |-> {}],
     results |-> [p \in Papers |-> "pending"]]

FreshRun ==
    /\ mainpc = Fresh.mainpc
    /\ nsub = Fresh.nsub
    /\ sem = Fresh.sem
    /\ pc = Fresh.pc
    /\ text = Fresh.text
    /\ idx = Fresh.idx
    /\ q = Fresh.q
    /\ calls = Fresh.calls
    /\ outcome = Fresh.outcome
    /\ made_dir = Fresh.made_dir
    /\ wrote = Fresh.wrote
    /\ results = Fresh.results

NoPrev == [run |-> 0]

\* both keys exported, papers taken from the local folder
FullEnv == [key |-> TRUE, token |-> TRUE, source |-> "folder"]

\* get_mendeley_papers is not running
NoDiscovery == [status |-> "idle"]

\* Finalize.py has not been started
NoReport == [phase |-> "idle"]

Init ==
    /\ np \in 1..NumPapers
    /\ api = ApiFor(np)
    /\ \E t \in TitleLists(np) : title = [p \in Papers |-> TitlePool[t[p]]]
    /\ run = 1
    /\ FreshRun
    /\ dirs = {}
    /\ store = EmptyStore
    /\ prev = NoPrev
    /\ env = FullEnv
    /\ disc = NoDiscovery
    /\ fin = NoReport

\* future = executor.submit(process_paper, paper, api_key, rate_limiter)
Submit ==
    /\ mainpc = "submit"
    /\ nsub < np
    /\ nsub' = nsub + 1
    /\ pc' = [pc EXCEPT ![nsub + 1] = "queued"]
    /\ UNCHANGED <<env, disc, fin, results,
                   np, api, title, run, mainpc, sem, text, idx, q, calls,
                   outcome, made_dir, wrote, dirs, store, prev>>

\* the last submit done, main() waits in as_completed(futures)
AllSubmitted ==
    /\ mainpc = "submit"
    /\ nsub = np
    /\ mainpc' = "wait"
    /\ UNCHANGED <<env, disc, fin, results,
                   np, api, title, run, nsub, sem, pc, text, idx, q, calls,
                   outcome, made_dir, wrote, dirs, store, prev>>

\* the pool threads counted as busy for good once they took a task
Running_never_freed == {p \in Papers : pc[p] \in Active \cup Terminal}

\* the tasks that occupy a pool thread
Running == {p \in Papers : pc[p] \in Active}

\* a pool thread takes the oldest queued task
Start(p) ==
    /\ pc[p] = "queued"
    /\ \A r \in Papers : r < p => pc[r] # "queued"
    /\ Cardinality(Running) < main_limits.pool
    /\ pc' = [pc EXCEPT ![p] = "extract"]
    /\ UNCHANGED <<env, disc, fin, results,
                   np, api, title, run, mainpc, nsub, sem, text, idx, q, calls,
                   outcome, made_dir, wrote, dirs, store, prev>>

\* text extraction raises: "Failed to extract text", return
ExtractRaises(p) ==
    /\ pc[p] = "extract"
    /\ text' = [text EXCEPT ![p] = Raised]
    /\ pc' = [pc EXCEPT ![p] = "skipped"]
    /\ UNCHANGED <<env, disc, fin, results,
                   np, api, title, run, mainpc, nsub, sem, idx, q, calls,
                   outcome, made_dir, wrote, dirs, store, prev>>

\* text extraction returns t; empty text returns, otherwise the paper folder
\* is made
Extract(p) ==
    /\ pc[p] = "extract"
    /\ \E t \in ExtractedTexts :
         /\ text' = [text EXCEPT ![p] = t]
         /\ IF has_text(t)
            THEN /\ made_dir' = [made_dir EXCEPT ![p] = TRUE]
                 /\ dirs' = dirs \cup {safe_title(title[p])}
                 /\ idx' = [idx EXCEPT ![p] = 1]
                 /\ pc' = [pc EXCEPT ![p] = "acquire"]
            ELSE /\ pc' = [pc EXCEPT ![p] = "skipped"]
                 /\ UNCHANGED <<made_dir, dirs, idx>>
    /\ UNCHANGED <<env, disc, fin, results,
                   np, api, title, run, mainpc, nsub, sem, q, calls,
                   outcome, wrote, store, prev>>

\* text extraction returns a text and os.makedirs raises OSError
MakedirsRaises(p) ==
    /\ pc[p] = "extract"
    /\ \E t \in ExtractedTexts :
         /\ has_text(t)
         /\ text' = [text EXCEPT ![p] = t]
    /\ made_dir' = [made_dir EXCEPT ![p] = TRUE]
    /\ pc' = [pc EXCEPT ![p] = "failed"]
    /\ UNCHANGED <<env, disc, fin, results,
                   np, api, title, run, mainpc, nsub, sem, idx, q, calls,
                   outcome, wrote, dirs, store, prev>>

release_after_text(s, result) == IF result = None THEN s ELSE s + 1

\* Semaphore.__exit__: the "with rate_limiter:" block gives its slot back
\* however it is left
release(s, result) == s + 1

\* "with rate_limiter:" entered, query_deepseek called
Acquire(p) ==
    /\ pc[p] = "acquire"
    /\ sem > 0
    /\ sem' = sem - 1
    /\ q' = [q EXCEPT ![p] = [NoQuery EXCEPT !.kind = "running"]]
    /\ calls' = [calls EXCEPT ![p][idx[p]] = @ + 1]
    /\ pc' = [pc EXCEPT ![p] = "call"]
    /\ UNCHANGED <<env, disc, fin, results,
                   np, api, title, run, mainpc, nsub, text, idx,
                   outcome, made_dir, wrote, dirs, store, prev>>

\* one attempt of query_deepseek; its return leaves the with block
Attempt(p) ==
    /\ pc[p] = "call"
    /\ \E r \in api :
         LET after == query_attempt(q[p], r) IN
         /\ q' = [q EXCEPT ![p] = after]
         /\ IF after.returned
            THEN /\ sem' = release(sem, after.result)
                 /\ outcome' = [outcome EXCEPT ![p][idx[p]] = after.result]
                 /\ pc' = [pc EXCEPT ![p] = "save"]
            ELSE UNCHANGED <<sem, outcome, pc>>
    /\ UNCHANGED <<env, disc, fin, results,
                   np, api, title, run, mainpc, nsub, text, idx, calls,
                   made_dir, wrote, dirs, store, prev>>

after_demand(p) ==
    LET n == next_idx(idx[p], q[p].result) IN
    /\ idx' = [idx EXCEPT ![p] = n]
    /\ q' = [q EXCEPT ![p] = NoQuery]
    /\ pc' = [pc EXCEPT ![p] = IF n > NumDemands THEN "completed" ELSE "acquire"]

\* "if response:" the result file is written, else "Demand failed" is printed
Save(p) ==
    /\ pc[p] = "save"
    /\ IF truthy(q[p].result)
       THEN /\ store' = [x \in DOMAIN store \cup {out_file(title[p], idx[p])} |->
                           IF x = out_file(title[p], idx[p])
                           THEN file_content(title[p], idx[p], q[p].result)
                           ELSE store[x]]
            /\ wrote' = [wrote EXCEPT ![p] = @ \cup {idx[p]}]
       ELSE UNCHANGED <<store, wrote>>
    /\ after_demand(p)
    /\ UNCHANGED <<env, disc, fin, results,
                   np, api, title, run, mainpc, nsub, sem, text, calls,
                   outcome, made_dir, dirs, prev>>

\* open(out_file, "w") raises OSError: the task ends with the exception
SaveRaises(p) ==
    /\ pc[p] = "save"
    /\ truthy(q[p].result)
    /\ q' = [q EXCEPT ![p] = NoQuery]
    /\ pc' = [pc EXCEPT ![p] = "failed"]
    /\ UNCHANGED <<env, disc, fin, results,
                   np, api, title, run, mainpc, nsub, sem, text, idx, calls,
                   outcome, made_dir, wrote, dirs, store, prev>>

\* as_completed(futures) has yielded every future: every task is done
futures_done_on_error ==
    \/ \A p \in 1..np : pc[p] \in Terminal
    \/ \E p \in 1..np : pc[p] = "failed"

futures_done == \A p \in 1..np : pc[p] \in Terminal

\* future.result(): returns what process_paper returned (None on every
\* return path), raises what it raised
future_result(state) == IF state = "failed" THEN "error" ELSE "returned"

\* main() has been through every future (an exception of a task is caught
\* and printed), leaves the pool and prints "ALL DONE"
Report ==
    /\ mainpc = "wait"
    /\ futures_done
    /\ mainpc' = "report"
    /\ results' = [p \in Papers |->
                      IF p <= np THEN future_result(pc[p]) ELSE "pending"]
    /\ UNCHANGED <<env, disc, fin,
                   np, api, title, run, nsub, sem, pc, text, idx, q,
                   calls, outcome, made_dir, wrote, dirs, store, prev>>

Worker(p) ==
    \/ Start(p)
    \/ ExtractRaises(p)
    \/ Extract(p)
    \/ MakedirsRaises(p)
    \/ Acquire(p)
    \/ Attempt(p)
    \/ Save(p)
    \/ SaveRaises(p)

Next ==
    \/ Submit
    \/ AllSubmitted
    \/ \E p \in Papers : Worker(p)
    \/ Report

Spec == Init /\ [][Next]_vars

\* runs of 1..NumPapers papers, the papers being the first of the pool
InitFair ==
    /\ np \in 1..NumPapers
    /\ api = ApiFor(np)
    /\ title = [p \in Papers |-> TitlePool[IF p <= np THEN p ELSE 1]]
    /\ run = 1
    /\ FreshRun
    /\ dirs = {}
    /\ store = EmptyStore
    /\ prev = NoPrev
    /\ env = FullEnv
    /\ disc = NoDiscovery
    /\ fin = NoReport

\* main() and the pool threads are OS threads: a step that stays possible
\* is taken in the end, no extraction or HTTP request hangs for ever
FairSpec == InitFair /\ [][Next]_vars /\ WF_vars(Next)

(***************************************************************************)
(* The pipeline run again over the output root the first run left.         *)
(***************************************************************************)
\* an API that answers with a text or fails for good
LeanApi == HappyApi \cup { Response(402, Malformed) }

\* main() started again on the same papers: new pool, new semaphore, new
\* tasks; OUTPUT_DIR is kept
Rerun ==
    /\ mainpc = "report"
    /\ run < MaxRuns
    /\ prev' = [run |-> run, pc |-> pc, text |-> text, outcome |-> outcome,
                store |-> store]
    /\ run' = run + 1
    /\ mainpc' = Fresh.mainpc
    /\ nsub' = Fresh.nsub
    /\ sem' = Fresh.sem
    /\ pc' = Fresh.pc
    /\ text' = Fresh.text
    /\ idx' = Fresh.idx
    /\ q' = Fresh.q
    /\ calls' = Fresh.calls
    /\ outcome' = Fresh.outcome
    /\ made_dir' = Fresh.made_dir
    /\ wrote' = Fresh.wrote
    /\ UNCHANGED <<env, disc, fin, results,
                   np, api, title, dirs, store>>

InitRerun ==
    /\ np = 2
    /\ api = LeanApi
    /\ \E t \in TitleLists(np) : title = [p \in Papers |-> TitlePool[t[p]]]
    /\ run = 1
    /\ FreshRun
    /\ dirs = {}
    /\ store = EmptyStore
    /\ prev = NoPrev
    /\ env = FullEnv
    /\ disc = NoDiscovery
    /\ fin = NoReport

NextRerun == Next \/ Rerun

SpecRerun == InitRerun /\ [][NextRerun]_vars

(***************************************************************************)
(* The start of main(): the credentials and the choice of the source.      *)
(***************************************************************************)
\* DEEPSEEK_API_KEY set or not, MENDELEY_TOKEN set or not, the answer to
\* choose_input_source()
Environments ==
    [key : BOOLEAN, token : BOOLEAN, source : {"folder", "mendeley"}]

credentials_ok_key_unchecked(e) == e.source = "mendeley" => e.token

\* get_deepseek_key() exits when the key is unset; get_mendeley_token(),
\* called on the Mendeley branch only, exits when the token is unset
credentials_ok(e) == e.key /\ (e.source = "mendeley" => e.token)

\* main() got its credentials and its list of papers and goes on to the pool
Startup ==
    /\ mainpc = "start"
    /\ credentials_ok(env)
    /\ mainpc' = "submit"
    /\ UNCHANGED <<env, disc, fin, results,
                   np, api, title, run, nsub, sem, pc,
                   text, idx, q, calls, outcome, made_dir, wrote, dirs, store,
                   prev>>

\* sys.exit("ERROR: ... environment variable not set.")
FatalExit ==
    /\ mainpc = "start"
    /\ ~credentials_ok(env)
    /\ mainpc' = "exit"
    /\ UNCHANGED <<env, disc, fin, results,
                   np, api, title, run, nsub, sem, pc,
                   text, idx, q, calls, outcome, made_dir, wrote, dirs, store,
                   prev>>

\* the program started in any environment, one paper to be found
InitStartup ==
    /\ np = 1
    /\ api = ApiFor(np)
    /\ \E t \in TitleLists(np) : title = [p \in Papers |-> TitlePool[t[p]]]
    /\ run = 1
    /\ mainpc = "start"
    /\ nsub = Fresh.nsub
    /\ sem = Fresh.sem
    /\ pc = Fresh.pc
    /\ text = Fresh.text
    /\ idx = Fresh.idx
    /\ q = Fresh.q
    /\ calls = Fresh.calls
    /\ outcome = Fresh.outcome
    /\ made_dir = Fresh.made_dir
    /\ wrote = Fresh.wrote
    /\ results = Fresh.results
    /\ dirs = {}
    /\ store = EmptyStore
    /\ prev = NoPrev
    /\ env \in Environments
    /\ disc = NoDiscovery
    /\ fin = NoReport

NextStartup == Startup \/ FatalExit \/ Next

SpecStartup == InitStartup /\ [][NextStartup]_vars

(***************************************************************************)
(* get_mendeley_papers: the paged listing of the Mendeley library.         *)
(***************************************************************************)
\* what the API holds for a listed document: no "files" entry; a file whose
\* info has a download_url; a file whose info has none; a file whose info
\* request is answered with an error status
DocKinds == {"nofiles", "url", "nourl", "gone"}

\* the non-empty pages the listing can serve, and the libraries made of them
ListingPages == UNION { [1..k -> DocKinds] : k \in 1..MaxPageLen }
Libraries == UNION { [1..n -> ListingPages] : n \in 0..MaxPages }

\* requests.get(f"{base_url}?limit={limit}&page={page}").json(): the page,
\* empty past the last one
listing_page(library, page) ==
    IF page \in 1..Len(library) THEN library[page] ELSE <<>>

\* the body of "for doc in docs" on one document
resolve_doc(kind) ==
    IF kind = "nofiles" THEN "skip"
    ELSE IF kind = "gone" THEN "raise"
    ELSE IF kind = "url" THEN "append"
    ELSE "skip"

\* the variables get_mendeley_papers does not touch
pipeline_vars == <<np, api, title, run, mainpc, nsub, sem, pc, text, idx, q,
                   calls, outcome, made_dir, wrote, dirs, store, prev, env,
                   results, fin>>

\* one turn of "while True": the page is requested; an empty one ends the
\* function with "return papers"
FetchPage ==
    /\ disc.status = "listing"
    /\ LET docs == listing_page(disc.library, disc.page) IN
       disc' = [disc EXCEPT !.asked = Append(@, disc.page),
                            !.docs = docs,
                            !.i = 1,
                            !.status = IF docs = <<>> THEN "done" ELSE "docs"]
    /\ UNCHANGED pipeline_vars

\* one document of the page; after the last one, page += 1
ResolveDoc ==
    /\ disc.status = "docs"
    /\ LET did == resolve_doc(disc.docs[disc.i])
           last == disc.i = Len(disc.docs)
       IN
       IF did = "raise"
       THEN disc' = [disc EXCEPT !.status = "raised"]
       ELSE disc' = [disc EXCEPT
                       !.papers = IF did = "append"
                                  THEN Append(@, <<disc.page, disc.i>>)
                                  ELSE @,
                       !.i = IF last THEN 1 ELSE @ + 1,
                       !.page = IF last THEN @ + 1 ELSE @,
                       !.status = IF last THEN "listing" ELSE "docs"]
    /\ UNCHANGED pipeline_vars

\* main() on its Mendeley branch calls get_mendeley_papers on some library
InitDiscovery ==
    /\ np = 1
    /\ api = ApiFor(np)
    /\ title = [p \in Papers |-> TitlePool[1]]
    /\ run = 1
    /\ mainpc = "start"
    /\ nsub = Fresh.nsub
    /\ sem = Fresh.sem
    /\ pc = Fresh.pc
    /\ text = Fresh.text
    /\ idx = Fresh.idx
    /\ q = Fresh.q
    /\ calls = Fresh.calls
    /\ outcome = Fresh.outcome
    /\ made_dir = Fresh.made_dir
    /\ wrote = Fresh.wrote
    /\ results = Fresh.results
    /\ dirs = {}
    /\ store = EmptyStore
    /\ prev = NoPrev
    /\ env = [key |-> TRUE, token |-> TRUE, source |-> "mendeley"]
    /\ fin = NoReport
    /\ \E library \in Libraries :
         disc = [status |-> "listing", library |-> library, page |-> 1,
                 docs |-> <<>>, i |-> 1, papers |-> <<>>, asked |-> <<>>]

NextDiscovery == FetchPage \/ ResolveDoc

SpecDiscovery == InitDiscovery /\ [][NextDiscovery]_vars

(***************************************************************************)
(* Finalize.py: the report built from the output root.                     *)
(***************************************************************************)
\* f"*Missing demand {i}*"
placeholder(i) == <<"*Missing demand ", i, "*">>

\* f"demand_{i:02d}.txt"
demand_fname(i) == <<"demand_">> \o pad2(i)

\* read_demand_files(paper_path): for i in range(1, 9), the content of the
\* file when os.path.isfile, the placeholder otherwise
read_demand_files(files, path) ==
    [i \in Demands |->
        LET f == [dir |-> path, file |-> demand_fname(i)] IN
        IF f \in DOMAIN files THEN files[f] ELSE placeholder(i)]

\* the entries of os.listdir(root) that are directories; the folder made
\* for an empty safe_title, os.path.join(OUTPUT_DIR, ""), is the root itself
subdirs(made) == {d \in made : d # <<>>}

\* os.listdir gives the folders in some order
Orderings(S) ==
    { o \in [1..Cardinality(S) -> S] :
        \A j, k \in 1..Cardinality(S) : j # k => o[j] # o[k] }

\* the category of each listed paper: none at all (0, the flat layout), or
\* the papers of one category folder after those of another
CategoryLists(n) ==
    { c \in [1..n -> 0..NumCategories] :
        \/ \A k \in 1..n : c[k] = 0
        \/ /\ \A k \in 1..n : c[k] >= 1
           /\ \A j, k \in 1..n : j < k => c[j] <= c[k] }

\* the module-level check: both variables or sys.exit
finalize_credentials_ok(e) == e.key /\ e.token

\* paper.get('meta') of a paper without metadata
NoMeta == [found |-> FALSE, title |-> <<>>, authors |-> <<>>]

\* what the Mendeley search does for a title: the request fails, finds
\* nothing, finds a record without authors, finds a record with authors
MetaAnswers == {"error", "empty", "noauthors", "full"}

\* search_mendeley(title): the metadata, or None on an empty answer and on
\* any exception
search_mendeley(folder, answer) ==
    IF answer \in {"error", "empty"} THEN NoMeta
    ELSE [found |-> TRUE, title |-> <<"M">> \o folder,
          authors |-> IF answer = "full" THEN <<"A">> ELSE <<>>]

\* the citation string of a paper in build_document
citation(folder, meta) ==
    IF meta.found /\ meta.authors # <<>>
    THEN [kind |-> "full", authors |-> meta.authors, title |-> meta.title]
    ELSE [kind |-> "stub", title |-> folder]

\* the number read before the citation is appended
heading_number_before_append(citations) == Len(citations) - 1

\* f"{paper['title']} [{len(citations)}]", the citation being appended
heading_number(citations) == Len(citations)

\* the place of the first paper that has the category of paper k
first_of_category(papers, k) ==
    CHOOSE j \in 1..Len(papers) :
        /\ papers[j].category = papers[k].category
        /\ \A h \in 1..(j - 1) : papers[h].category # papers[k].category

\* categories.setdefault(cat, []).append(p), then the two nested loops: the
\* papers category by category, the categories by first appearance
build_order(papers) ==
    LET n == Len(papers)
        before(j, k) ==
            \/ first_of_category(papers, j) < first_of_category(papers, k)
            \/ /\ first_of_category(papers, j) = first_of_category(papers, k)
               /\ j < k
    IN [r \in 1..n |->
          CHOOSE k \in 1..n :
              Cardinality({j \in 1..n : before(j, k)}) = r - 1]

\* sys.exit at import: a variable is missing
FinalizeExit ==
    /\ mainpc = "report"
    /\ fin.phase = "idle"
    /\ ~finalize_credentials_ok(env)
    /\ fin' = [phase |-> "exit"]
    /\ UNCHANGED <<env, disc, results, np, api, title, run, mainpc, nsub,
                   sem, pc, text, idx, q, calls, outcome, made_dir, wrote,
                   dirs, store, prev>>

\* main(): detect_structure(root) on the output root of a finished run;
\* no paper folder is sys.exit
DetectStructure ==
    /\ mainpc = "report"
    /\ fin.phase = "idle"
    /\ finalize_credentials_ok(env)
    /\ \E o \in Orderings(subdirs(dirs)) :
         \E c \in CategoryLists(Len(o)) :
            fin' = IF o = <<>>
                   THEN [phase |-> "exit"]
                   ELSE [phase |-> "lookup",
                         papers |-> [k \in 1..Len(o) |->
                                       [title |-> o[k], category |-> c[k]]],
                         lookup |-> [k \in 1..Len(o) |-> "queued"],
                         meta |-> [k \in 1..Len(o) |-> NoMeta],
                         citations |-> <<>>,
                         headings |-> <<>>,
                         sections |-> <<>>,
                         bibliography |-> <<>>]
    /\ UNCHANGED <<env, disc, results, np, api, title, run, mainpc, nsub,
                   sem, pc, text, idx, q, calls, outcome, made_dir, wrote,
                   dirs, store, prev>>

LookupsRunning == {k \in 1..Len(fin.papers) : fin.lookup[k] = "running"}

\* a thread of the metadata pool takes the oldest queued lookup
StartLookup(k) ==
    /\ fin.phase = "lookup"
    /\ k \in 1..Len(fin.papers)
    /\ fin.lookup[k] = "queued"
    /\ \A j \in 1..(k - 1) : fin.lookup[j] # "queued"
    /\ Cardinality(LookupsRunning) < META_WORKERS
    /\ fin' = [fin EXCEPT !.lookup[k] = "running"]
    /\ UNCHANGED <<env, disc, results, np, api, title, run, mainpc, nsub,
                   sem, pc, text, idx, q, calls, outcome, made_dir, wrote,
                   dirs, store, prev>>

\* search_mendeley returns; paper['meta'] = future.result()
FinishLookup(k) ==
    /\ fin.phase = "lookup"
    /\ k \in 1..Len(fin.papers)
    /\ fin.lookup[k] = "running"
    /\ \E a \in MetaAnswers :
         fin' = [fin EXCEPT
                   !.lookup[k] = "done",
                   !.meta[k] = search_mendeley(fin.papers[k].title, a)]
    /\ UNCHANGED <<env, disc, results, np, api, title, run, mainpc, nsub,
                   sem, pc, text, idx, q, calls, outcome, made_dir, wrote,
                   dirs, store, prev>>

\* as_completed is exhausted, fetch_all_metadata returns
MetadataFetched ==
    /\ fin.phase = "lookup"
    /\ \A k \in 1..Len(fin.papers) : fin.lookup[k] = "done"
    /\ fin' = [fin EXCEPT !.phase = "build"]
    /\ UNCHANGED <<env, disc, results, np, api, title, run, mainpc, nsub,
                   sem, pc, text, idx, q, calls, outcome, made_dir, wrote,
                   dirs, store, prev>>

\* build_document, one paper of the main body: citation, heading, the
\* demands read and laid out under the subsections
BuildPaper ==
    /\ fin.phase = "build"
    /\ Len(fin.citations) < Len(fin.papers)
    /\ LET k == build_order(fin.papers)[Len(fin.citations) + 1]
           cits == Append(fin.citations,
                          citation(fin.papers[k].title, fin.meta[k]))
       IN fin' = [fin EXCEPT
                    !.citations = cits,
                    !.headings = Append(@, [paper |-> k,
                                            title |-> fin.papers[k].title,
                                            number |-> heading_number(cits)]),
                    !.sections = Append(@, read_demand_files(
                                               store, fin.papers[k].title))]
    /\ UNCHANGED <<env, disc, results, np, api, title, run, mainpc, nsub,
                   sem, pc, text, idx, q, calls, outcome, made_dir, wrote,
                   dirs, store, prev>>

\* build_document, the bibliography after the last paper, doc.save
Bibliography ==
    /\ fin.phase = "build"
    /\ Len(fin.citations) = Len(fin.papers)
    /\ fin' = [fin EXCEPT
                 !.phase = "saved",
                 !.bibliography = [i \in 1..Len(fin.citations) |->
                                     [number |-> i, cit |-> fin.citations[i]]]]
    /\ UNCHANGED <<env, disc, results, np, api, title, run, mainpc, nsub,
                   sem, pc, text, idx, q, calls, outcome, made_dir, wrote,
                   dirs, store, prev>>

Finalize ==
    \/ DetectStructure
    \/ \E k \in Papers : StartLookup(k)
    \/ \E k \in Papers : FinishLookup(k)
    \/ MetadataFetched
    \/ BuildPaper
    \/ Bibliography

\* titles as a Mendeley library can hold them: one without a character
\* that safe_title keeps, one plain
HandoffTitlePool == << <<"?">>, <<"a">> >>

\* a run of the pipeline on one or two papers, Finalize.py not yet started
InitHandoff ==
    /\ np \in 1..Len(HandoffTitlePool)
    /\ api = LeanApi
    /\ title = [p \in Papers |-> HandoffTitlePool[IF p <= np THEN p ELSE 1]]
    /\ run = 1
    /\ FreshRun
    /\ dirs = {}
    /\ store = EmptyStore
    /\ prev = NoPrev
    /\ env = FullEnv
    /\ disc = NoDiscovery
    /\ fin = NoReport

\* GenerateTXT.py, then Finalize.py on its output root
NextHandoff == Next \/ Finalize

SpecHandoff == InitHandoff /\ [][NextHandoff]_vars

\* names of paper folders under a root
FolderPool == { <<"a">>, <<"b">>, <<"c">>, <<"a", "b">> }

\* the result file that a root with the folder "a" holds
SomeStore ==
    [x \in {[dir |-> <<"a">>, file |-> demand_fname(1)]} |->
        file_content(<<"a">>, 1, "a")]

\* Finalize.py started on a root that earlier runs left, in an environment
\* with or without the two variables
InitFinalize ==
    /\ np = 1
    /\ api = HappyApi
    /\ title = [p \in Papers |-> TitlePool[1]]
    /\ run = 1
    /\ mainpc = "report"
    /\ nsub = Fresh.nsub
    /\ sem = Fresh.sem
    /\ pc = Fresh.pc
    /\ text = Fresh.text
    /\ idx = Fresh.idx
    /\ q = Fresh.q
    /\ calls = Fresh.calls
    /\ outcome = Fresh.outcome
    /\ made_dir = Fresh.made_dir
    /\ wrote = Fresh.wrote
    /\ results = Fresh.results
    /\ dirs \in {S \in SUBSET FolderPool : Cardinality(S) <= NumPapers}
    /\ store = IF <<"a">> \in dirs THEN SomeStore ELSE EmptyStore
    /\ prev = NoPrev
    /\ env \in {e \in Environments : e.source = "folder"}
    /\ disc = NoDiscovery
    /\ fin = NoReport

NextFinalize == FinalizeExit \/ Finalize

SpecFinalize == InitFinalize /\ [][NextFinalize]_vars

(***************************************************************************)
(* Properties.                                                             *)
(***************************************************************************)
Submitted == 1..np

\* the tasks inside "with rate_limiter:", that is inside query_deepseek
InFlight == {p \in Papers : pc[p] = "call"}

\* extraction returned a text that is not blank
GotText(p) ==
    /\ text[p] \notin {NotExtracted, Raised}
    /\ \E i \in 1..Len(text[p]) : text[p][i] \notin Whitespace

\* extraction raised, or returned an empty or whitespace-only text
GotNoText(p) ==
    \/ text[p] = Raised
    \/ /\ text[p] # NotExtracted
       /\ \A i \in 1..Len(text[p]) : text[p][i] \in Whitespace

\* the call for demand d of paper p has returned
Returned(p, d) == outcome[p][d] # NotCalled

\* the call for demand d of paper p returned a text (possibly empty)
Succeeded(p, d) == outcome[p][d] \notin {NotCalled, None}

\* the completion calls of paper p were made at most once each and in index
\* order, each after the one before it had returned
CalledInOrder(p) ==
    \A d \in Demands :
        /\ calls[p][d] <= 1
        /\ (calls[p][d] = 1 /\ d > 1) => (calls[p][d - 1] = 1 /\ Returned(p, d - 1))
        /\ Returned(p, d) => calls[p][d] = 1

\* C1: in every reachable state the number of completion calls in flight,
\* counted over all papers of the run, is at most the configured maximum.
C1_InFlightBounded == Cardinality(InFlight) <= MAX_WORKERS

\* as many calls in flight as the maximum allows while another paper waits
C1_Witness ==
    /\ Cardinality(InFlight) = MAX_WORKERS
    /\ \E p \in Submitted : pc[p] = "queued"

\* C2 as stated: every paper with non-empty text gets the completion call
\* exactly once per demand index, in index order, each call returned before
\* the next starts.
C2_ExactlyOncePerDemand ==
    \A p \in Submitted :
        GotText(p) =>
            /\ CalledInOrder(p)
            /\ pc[p] \in Terminal => \A d \in Demands : calls[p][d] = 1

\* C2 amended: every paper with non-empty text gets the completion call at
\* most once per demand index, in index order, each call returned before the
\* next starts; and exactly once per index when the task runs to its end,
\* that is unless os.makedirs or the writing of a result file raised.
C2_OncePerDemandUnlessRaised ==
    \A p \in Submitted :
        GotText(p) =>
            /\ CalledInOrder(p)
            /\ pc[p] \in Terminal => pc[p] \in {"completed", "failed"}
            /\ pc[p] = "completed" => \A d \in Demands : calls[p][d] = 1

\* a paper run to its end although its first call failed
C2_Witness ==
    \E p \in Submitted :
        /\ pc[p] = "completed"
        /\ outcome[p][1] = None
        /\ \A d \in Demands : calls[p][d] = 1

\* no other paper of the run has the folder of paper p
OwnFolder(p) ==
    \A r \in Submitted : r # p => safe_title(title[r]) # safe_title(title[p])

\* C3 as stated: on an empty output root, a processed paper's folder holds
\* the file of demand k exactly when the call for k returned a text, an
\* empty text included, and at most N files.
C3_FileIffSuccess ==
    \A p \in Submitted :
        (run = 1 /\ pc[p] = "completed" /\ OwnFolder(p)) =>
            /\ \A d \in Demands :
                 out_file(title[p], d) \in DOMAIN store <=> Succeeded(p, d)
            /\ Cardinality({x \in DOMAIN store : x.dir = safe_title(title[p])})
                 <= NumDemands

\* C4: a paper whose extraction raises or gives empty or whitespace-only
\* text gets no completion call, never takes a rate-limiter slot, gets no
\* folder and no result file, and ends skipped.
C4_NoTextNoWork ==
    \A p \in Submitted :
        GotNoText(p) =>
            /\ pc[p] = "skipped"
            /\ \A d \in Demands : calls[p][d] = 0 /\ outcome[p][d] = NotCalled
            /\ q[p] = NoQuery
            /\ ~made_dir[p]
            /\ wrote[p] = {}
            /\ OwnFolder(p) =>
                 /\ safe_title(title[p]) \notin dirs
                 /\ \A x \in DOMAIN store : x.dir # safe_title(title[p])

\* a paper with whitespace-only text, skipped
C4_Witness ==
    \E p \in Submitted : text[p] = <<" ">> /\ pc[p] = "skipped"

\* a network exception, or a status that is neither a success status nor 402
TransientFailure(r) == r.exc \/ (r.status \notin 200..299 /\ r.status # 402)

\* status 200 with the generated text in its body
SuccessResponse(r) == ~r.exc /\ r.status = 200 /\ r.content # Malformed

QuotaResponse(r) == ~r.exc /\ r.status = 402

\* the attempts of the call failed transiently, all but the last, which
\* succeeded
FailedThenSucceeded(h) ==
    /\ h # <<>>
    /\ SuccessResponse(h[Len(h)])
    /\ \A i \in 1..(Len(h) - 1) : TransientFailure(h[i])

\* delays that start at the base delay of 1 second and double
Doubling(sleeps) ==
    /\ sleeps # <<>> => sleeps[1] = 1
    /\ \A i \in 1..(Len(sleeps) - 1) :
         sleeps[i + 1] = 2 * sleeps[i] /\ sleeps[i] < sleeps[i + 1]

\* C5: a call whose first k attempts fail transiently (k < retries) and whose
\* next attempt succeeds returns the generated text after exactly k+1
\* attempts, having slept k delays that double from the base delay and so
\* increase strictly.
C5_RetryThenSuccess ==
    \A p \in Submitted :
        FailedThenSucceeded(q[p].hist) =>
            /\ q[p].returned
            /\ q[p].kind = "text"
            /\ q[p].result = q[p].hist[Len(q[p].hist)].content
            /\ Len(q[p].hist) <= retries
            /\ Len(q[p].sleeps) = Len(q[p].hist) - 1
            /\ Doubling(q[p].sleeps)
            /\ outcome[p][idx[p]] = q[p].result

\* a call that succeeded on its third attempt, after a failure status and a
\* network exception
C5_Witness ==
    \E p \in Submitted :
        /\ pc[p] = "save"
        /\ Len(q[p].hist) = retries
        /\ FailedThenSucceeded(q[p].hist)
        /\ \E i \in 1..Len(q[p].hist) : q[p].hist[i].exc
        /\ q[p].sleeps = <<1, 2>>

\* C6: status 402 ends the call at once with a failure, at whichever attempt
\* it comes: it is the call's last attempt and no backoff sleep follows it;
\* a call answered 402 at once made one attempt; the demand is recorded as
\* failed and a failed demand's call writes no result file.
C6_QuotaStopsAtOnce ==
    \A p \in Submitted :
        /\ \A j \in 1..Len(q[p].hist) :
             QuotaResponse(q[p].hist[j]) =>
                 /\ j = Len(q[p].hist)
                 /\ Len(q[p].sleeps) = j - 1
                 /\ q[p].returned
                 /\ q[p].kind = "quota"
                 /\ q[p].result = None
                 /\ pc[p] = "save"
                 /\ outcome[p][idx[p]] = None
                 /\ idx[p] \notin wrote[p]
        /\ \A d \in Demands : outcome[p][d] = None => d \notin wrote[p]

\* a call ended by 402 on its second attempt, and a paper whose first demand
\* failed and has no file
C6_Witness ==
    \E p \in Submitted :
        /\ pc[p] = "save"
        /\ idx[p] = 2
        /\ outcome[p][1] = None
        /\ 1 \notin wrote[p]
        /\ Len(q[p].hist) = 2
        /\ QuotaResponse(q[p].hist[2])

\* a call that gave up after all its attempts
Exhausted(p) == pc[p] = "save" /\ q[p].kind = "exhausted"

\* the step of paper p after a call that gave up: on to the next demand, or
\* completed after the last one
ContinuesAfterExhaustion(p) ==
    (Exhausted(p) /\ (pc'[p] # pc[p] \/ idx'[p] # idx[p])) =>
        /\ idx'[p] = idx[p] + 1
        /\ pc'[p] = IF idx[p] < NumDemands THEN "acquire" ELSE "completed"
        /\ store' = store

\* one call makes at most `retries` attempts; when they all fail it has made
\* exactly that many and returns the failure value
AttemptsBounded ==
    \A p \in Submitted :
        /\ Len(q[p].hist) <= retries
        /\ q[p].attempt <= retries
        /\ (\A i \in 1..Len(q[p].hist) : TransientFailure(q[p].hist[i])) =>
             /\ q[p].returned <=> Len(q[p].hist) = retries
             /\ q[p].returned =>
                  /\ q[p].kind = "exhausted"
                  /\ q[p].result = None
                  /\ outcome[p][idx[p]] = None
        /\ q[p].kind = "exhausted" => Len(q[p].hist) = retries

\* C7: one query_deepseek call makes at most `retries` attempts whatever the
\* API answers; if every attempt fails transiently it makes exactly that
\* many and returns the failure value to process_paper, which goes on to the
\* paper's next demand.
C7_GivesUpAfterRetries ==
    /\ []AttemptsBounded
    /\ [][\A p \in Submitted : ContinuesAfterExhaustion(p)]_vars

\* a paper on its second demand's call after the first gave up
C7_Witness ==
    \E p \in Submitted :
        /\ Exhausted(p)
        /\ idx[p] = 2
        /\ Len(q[p].hist) = retries
        /\ \A i \in 1..retries : TransientFailure(q[p].hist[i])
        /\ q[p].sleeps = <<1, 2, 4>>

\* C8 as stated: a failed call never aborts the paper: a paper that runs to
\* its end was called for every demand, and every demand whose call
\* succeeded has its result written, whatever the other demands did.
C8_FailureDoesNotAbort ==
    \A p \in Submitted :
        /\ pc[p] = "completed" => \A d \in Demands : calls[p][d] = 1
        /\ \A d \in Demands :
             (Succeeded(p, d) /\ idx[p] > d) => d \in wrote[p]

\* C9 as stated: no two tasks of a run write the same result file.
C9_NoSharedResultFile ==
    \A p, r \in Submitted :
        p # r =>
            \A d \in wrote[p], e \in wrote[r] :
                out_file(title[p], d) # out_file(title[r], e)

\* both runs saw the same texts and the same outcome and text of every
\* call, and no task ended with an exception
SameInputsBothRuns ==
    /\ prev.text = text
    /\ prev.outcome = outcome
    /\ \A p \in Submitted : pc[p] # "failed" /\ prev.pc[p] # "failed"

\* C10 as stated: a second run over the same papers, with the same call
\* outcomes, leaves the result store as the first run left it.
C10_RerunIdempotent ==
    (run = 2 /\ mainpc = "report" /\ SameInputsBothRuns) => store = prev.store

\* the task of p ended with an exception or without a text to work on
Dropped(p) == pc[p] = "failed" \/ pc[p] = "skipped"

\* the task of p was called for every demand and came to its end
ProcessedThroughAllDemands(p) ==
    /\ pc[p] = "completed"
    /\ \A d \in Demands : calls[p][d] = 1 /\ Returned(p, d)

\* C11: a paper that fails (no text extracted, or an exception in its
\* task) never aborts the run: main() gets to its final report only when
\* every submitted task is done and its future was looked at, and by then
\* every paper that had a text and did not raise itself went through all
\* its demands, whatever happened to the other papers.
C11_FailedPaperDoesNotAbortRun ==
    mainpc = "report" =>
        \A p \in Submitted :
            /\ pc[p] \in Terminal
            /\ results[p] = future_result(pc[p])
            /\ ~Dropped(p) => ProcessedThroughAllDemands(p)
            /\ (GotText(p) /\ pc[p] # "failed") => ProcessedThroughAllDemands(p)

\* the final report of a run where the first paper raised, the second had
\* no text and the third went through all its demands
C11_Witness ==
    /\ mainpc = "report"
    /\ np >= 3
    /\ pc[1] = "failed" /\ results[1] = "error"
    /\ pc[2] = "skipped"
    /\ ProcessedThroughAllDemands(3)

\* what main() holds of a paper when it prints "ALL DONE": a future that
\* raised was printed as an error, every other one returned None
summary_class(p) == IF results[p] = "error" THEN "failed" ELSE "completed"

\* the papers main() can count under each outcome
summary == [c \in Terminal |->
              Cardinality({p \in Submitted : summary_class(p) = c})]

\* C12 as stated: at the final report every paper is counted under exactly
\* the outcome its task had (completed, skipped or failed), so that three
\* papers of which one is empty give one skipped and two completed.
C12_SummaryCountsEveryOutcome ==
    mainpc = "report" =>
        /\ \A c \in Terminal :
             summary[c] = Cardinality({p \in Submitted : pc[p] = c})
        /\ \A p \in Submitted : summary_class(p) = pc[p]

\* nothing of the pipeline has happened: no paper list, no task, no call,
\* no folder, no file
NoWorkDone ==
    /\ mainpc \in {"start", "exit"}
    /\ nsub = 0
    /\ \A p \in Papers :
         /\ pc[p] = "unsubmitted"
         /\ text[p] = NotExtracted
         /\ \A d \in Demands : calls[p][d] = 0
    /\ dirs = {}
    /\ store = EmptyStore

\* C13 as stated: with either credential unset the program does no work,
\* whichever source is chosen.
C13_AnyMissingCredentialStops == (~env.key \/ ~env.token) => NoWorkDone

\* C13: with the API key unset, or with the Mendeley source chosen and the
\* Mendeley token unset, the program exits before any work: no paper is
\* submitted, no call made, no folder or file created; with both at hand
\* for the chosen source it never takes the fatal exit.
C13_MissingNeededCredentialStops ==
    /\ ~credentials_ok(env) => NoWorkDone
    /\ ~env.key => NoWorkDone
    /\ (env.source = "mendeley" /\ ~env.token) => NoWorkDone
    /\ mainpc = "exit" =>
         (~env.key \/ (env.source = "mendeley" /\ ~env.token))

\* the fatal exit taken on the Mendeley branch for the missing token alone
C13_Witness ==
    /\ mainpc = "exit"
    /\ env.key /\ ~env.token /\ env.source = "mendeley"
    /\ NoWorkDone

\* the demands of p for which the semaphore was acquired, and those for
\* which query_deepseek is back
AcquiredFor(p) == {d \in Demands : calls[p][d] > 0}
ReleasedFor(p) == {d \in Demands : Returned(p, d)}

\* free slots plus held slots are the configured maximum
SlotsConserved ==
    /\ sem \in 0..MAX_WORKERS
    /\ sem + Cardinality(InFlight) = MAX_WORKERS
    /\ \A p \in Papers :
         /\ ReleasedFor(p) \subseteq AcquiredFor(p)
         /\ AcquiredFor(p) \ ReleasedFor(p) =
              IF pc[p] = "call" THEN {idx[p]} ELSE {}
    /\ (\A p \in Submitted : pc[p] \in Terminal) => sem = MAX_WORKERS

\* a slot is taken by a task entering its call and given back by the task
\* that holds it, one slot at a time
OneReleasePerAcquire ==
    /\ sem' < sem =>
         /\ sem' = sem - 1
         /\ \E p \in Submitted : pc[p] = "acquire" /\ pc'[p] = "call"
    /\ sem' > sem =>
         /\ sem' = sem + 1
         /\ \E p \in Submitted : pc[p] = "call" /\ pc'[p] = "save"
    /\ \A p \in Submitted :
         (pc[p] = "call" /\ pc'[p] # "call") => sem' = sem + 1

\* C14: the rate limiter is a counting semaphore whose slots are conserved:
\* free plus held slots are MAX_WORKERS and the free count is never
\* negative; every acquire is followed by one release by the same worker,
\* whether the call returned a text or a failure; when all workers are done
\* every slot is free.
C14_SlotsConserved == []SlotsConserved /\ [][OneReleasePerAcquire]_vars

\* a slot just given back after a failed call while another task holds one
C14_Witness ==
    \E p, r \in Submitted :
        /\ pc[p] = "save" /\ q[p].result = None
        /\ pc[r] = "call"
        /\ sem = MAX_WORKERS - 1

\* C19: the pool and the semaphore have the same size, so a pool thread
\* that gets to "with rate_limiter:" always finds a free slot: no task is
\* ever blocked on the acquire, and the tasks past the queue are never
\* more than the pool size.
C19_AcquireNeverBlocks ==
    /\ \A p \in Papers : pc[p] = "acquire" => sem > 0
    /\ Cardinality(Running) <= MAX_WORKERS
    /\ Cardinality(InFlight) <= Cardinality(Running)

\* every pool thread busy, a paper still queued, and the one task about to
\* acquire finds the last slot free
C19_Witness ==
    /\ Cardinality(Running) = MAX_WORKERS
    /\ \E p \in Submitted : pc[p] = "queued"
    /\ \E p \in Submitted : pc[p] = "acquire" /\ sem = 1
    /\ Cardinality(InFlight) = MAX_WORKERS - 1

\* an attempt that raised: the request itself, or the decoding of a 200
\* response whose body is not the expected JSON
RaisedInAttempt(r) == r.exc \/ (r.status = 200 /\ r.content = Malformed)

\* the i-th attempt of a call raised and was handled as a transient
\* failure: the backoff sleep of that attempt was taken, and the call went
\* on to the next attempt unless it was the last one
HandledAsTransient(c, i) ==
    /\ Len(c.sleeps) >= i
    /\ c.sleeps[i] = 2 ^ (i - 1)
    /\ i < retries => (Len(c.hist) > i \/ ~c.returned)
    /\ i = retries => (c.returned /\ c.result = None /\ c.kind = "exhausted")

\* C20: query_deepseek never lets an exception out: whatever the API does,
\* the call ends with a text or with None, and an attempt that raised (the
\* decoding of a 200 response included) is handled as a transient failure,
\* with its backoff sleep and the next attempt if one is left.
C20_NoExceptionEscapes ==
    \A p \in Submitted :
        /\ q[p].kind \in {"idle", "running", "text", "quota", "exhausted"}
        /\ q[p].returned =>
             /\ q[p].result # Escaped
             /\ q[p].result # Malformed
             /\ q[p].result = None \/ q[p].kind = "text"
        /\ \A d \in Demands : outcome[p][d] \notin {Escaped, Malformed}
        /\ \A i \in 1..Len(q[p].hist) :
             RaisedInAttempt(q[p].hist[i]) => HandledAsTransient(q[p], i)

\* a call whose request raised, whose second answer could not be decoded,
\* and whose third attempt brought the text
C20_Witness ==
    \E p \in Submitted :
        /\ pc[p] = "save"
        /\ Len(q[p].hist) = 3
        /\ q[p].hist[1].exc
        /\ q[p].hist[2] = Response(200, Malformed)
        /\ SuccessResponse(q[p].hist[3])
        /\ q[p].result = q[p].hist[3].content
        /\ q[p].sleeps = <<1, 2>>

\* the last answer a call has got, and whether its attempt was slept on
LastAnswer(c) == c.hist[Len(c.hist)]
SleptOnLast(c) == Len(c.sleeps) = Len(c.hist)

\* C17 as stated: every 2xx answer that carries the generated text ends the
\* call with that text and without a retry; status 402 ends it at once with
\* the failure value; every other non-2xx status is retried after a
\* backoff sleep.
C17_StatusClasses ==
    \A p \in Submitted :
        (Len(q[p].hist) > 0 /\ ~LastAnswer(q[p]).exc) =>
            LET r == LastAnswer(q[p]) IN
            /\ (r.status \in 200..299 /\ r.content # Malformed) =>
                 /\ q[p].returned
                 /\ q[p].result = r.content
                 /\ ~SleptOnLast(q[p])
            /\ r.status = 402 =>
                 /\ q[p].returned
                 /\ q[p].result = None
                 /\ ~SleptOnLast(q[p])
            /\ (r.status \notin 200..299 /\ r.status # 402) =>
                 SleptOnLast(q[p])

\* C16 as stated: when a run is over, a re-run into a used output root
\* included, a (paper, demand) pair whose call failed in that run has no
\* result file, and a file that is there holds that run's response (here
\* for the papers the run went through and whose folder no other paper
\* shares).
C16_FailedPairHasNoFile ==
    mainpc = "report" =>
        \A p \in Submitted :
            (pc[p] = "completed" /\ OwnFolder(p)) =>
                \A d \in Demands :
                    /\ outcome[p][d] = None =>
                         out_file(title[p], d) \notin DOMAIN store
                    /\ out_file(title[p], d) \in DOMAIN store =>
                         /\ Succeeded(p, d)
                         /\ store[out_file(title[p], d)] =
                              file_content(title[p], d, outcome[p][d])

\* the final report, every submitted task being in a terminal state:
\* none is queued, none is at the acquire or inside a call any more
RunOver ==
    /\ mainpc = "report"
    /\ nsub = np
    /\ \A p \in Submitted : pc[p] \in Terminal
    /\ sem = MAX_WORKERS

\* C15: under fair scheduling every run terminates, for fewer papers than
\* pool threads as for more: main() gets to its final report with every
\* submitted task in a terminal state, so that no task stays for ever in
\* the queue, at the acquire of the rate limiter or inside a call.
C15_RunTerminates == <>RunOver

\* the final report of a run of more papers than pool threads, all
\* through all their demands
C15_Witness ==
    /\ RunOver
    /\ np > MAX_WORKERS
    /\ \A p \in Submitted : pc[p] = "completed"

\* the documents of a page, from the i-th on, that have a file whose info
\* gives a download URL, each named by its page and place
RECURSIVE PagePapers(_, _, _)
PagePapers(docs, k, i) ==
    IF i > Len(docs) THEN <<>>
    ELSE (IF docs[i] = "url" THEN << <<k, i>> >> ELSE <<>>)
         \o PagePapers(docs, k, i + 1)

\* the same over the pages of a library from the k-th on, in listing order
RECURSIVE ListedPapers(_, _)
ListedPapers(library, k) ==
    IF k > Len(library) THEN <<>>
    ELSE PagePapers(library[k], k, 1) \o ListedPapers(library, k + 1)

\* C18 as stated: get_mendeley_papers asks for the pages 1, 2, 3, ... in
\* order and stops at the first empty one; it returns, in listing order,
\* one paper for each listed document whose file reference resolves to a
\* download URL; a document without a resolvable reference is skipped and
\* never stops or fails the discovery.
C18_DiscoveryListsResolvable ==
    /\ disc.status # "raised"
    /\ disc.asked = [k \in 1..Len(disc.asked) |-> k]
    /\ disc.status = "done" =>
         /\ Len(disc.asked) = Len(disc.library) + 1
         /\ disc.papers = ListedPapers(disc.library, 1)

\* the report is over: saved, or given up for want of paper folders
ReportOver == fin.phase \in {"saved", "exit"}

\* the report has the content of result file f under the subsection of its
\* demand, in the part of the paper whose folder holds it
ShownInReport(f) ==
    /\ fin.phase = "saved"
    /\ \E r \in 1..Len(fin.headings) :
         /\ fin.headings[r].title = f.dir
         /\ \E i \in Demands :
              /\ f.file = <<"demand_">> \o pad2(i)
              /\ fin.sections[r][i] = store[f]

\* the report has the placeholder for demand d in the part of the paper
\* whose folder is path
PlaceholderInReport(path, d) ==
    /\ fin.phase = "saved"
    /\ \E r \in 1..Len(fin.headings) :
         /\ fin.headings[r].title = path
         /\ fin.sections[r][d] = <<"*Missing demand ", d, "*">>

\* every part of the report has the demands 1..N of its folder: the file's
\* content where the file is, the placeholder where it is not
SectionsMirrorFolders ==
    fin.phase = "saved" =>
        \A r \in 1..Len(fin.sections) :
            /\ DOMAIN fin.sections[r] = Demands
            /\ \A i \in Demands :
                 LET f == [dir |-> fin.headings[r].title,
                           file |-> <<"demand_">> \o pad2(i)]
                 IN fin.sections[r][i] =
                      IF f \in DOMAIN store THEN store[f]
                      ELSE <<"*Missing demand ", i, "*">>

\* C21 as stated: for every paper folder the report reads the demands
\* 1..N, each the content of its zero-padded file or the placeholder; so
\* every result file the pipeline wrote is in the report under its
\* subsection, and every demand of a processed paper that left no file is
\* there as the placeholder.
C21_ReportShowsEveryDemand ==
    /\ SectionsMirrorFolders
    /\ ReportOver =>
         /\ \A f \in DOMAIN store : ShownInReport(f)
         /\ \A p \in Submitted :
              \A d \in Demands :
                  (made_dir[p] /\ pc[p] # "failed"
                    /\ out_file(title[p], d) \notin DOMAIN store) =>
                      PlaceholderInReport(safe_title(title[p]), d)

\* every listed paper has the one outcome of its lookup: a record, or none
\* when the search failed or found nothing
OneMetadataOutcomeEach ==
    fin.phase \in {"build", "saved"} =>
        \A k \in 1..Len(fin.papers) :
            /\ fin.lookup[k] = "done"
            /\ fin.meta[k].found \in BOOLEAN
            /\ ~fin.meta[k].found => fin.meta[k] = NoMeta

\* the headings written so far are numbered 1, 2, ... and are of different
\* papers, each with its citation at the place of its number
HeadingsMatchCitations ==
    fin.phase \in {"build", "saved"} =>
        /\ Len(fin.headings) = Len(fin.citations)
        /\ \A r \in 1..Len(fin.headings) :
             LET k == fin.headings[r].paper IN
             /\ fin.headings[r].number = r
             /\ fin.headings[r].title = fin.papers[k].title
             /\ \A s \in 1..Len(fin.headings) :
                  s # r => fin.headings[s].paper # k
             /\ ~fin.meta[k].found =>
                  fin.citations[r] =
                      [kind |-> "stub", title |-> fin.papers[k].title]
             /\ (fin.meta[k].found /\ fin.meta[k].authors # <<>>) =>
                  /\ fin.citations[r].kind = "full"
                  /\ fin.citations[r].title = fin.meta[k].title

\* the bibliography has one entry for each paper, in the order of the
\* headings and under the number of the paper's heading
BibliographyMatchesHeadings ==
    fin.phase = "saved" =>
        /\ Len(fin.bibliography) = Len(fin.papers)
        /\ Len(fin.headings) = Len(fin.papers)
        /\ \A r \in 1..Len(fin.bibliography) :
             /\ fin.bibliography[r].number = fin.headings[r].number
             /\ fin.bibliography[r].cit = fin.citations[r]

\* C22: the metadata lookups run in a pool, every paper ends with exactly
\* one outcome (a record or none) and a failed or empty lookup of one paper
\* does not stop the others; the bibliography has one entry per paper in
\* the order of the paper headings, the number on a paper's heading is the
\* index of its entry, and a paper without metadata gets the
\* "(metadata not found)" stub made from its title.
C22_OneEntryPerPaper ==
    /\ fin.phase \in {"lookup", "build", "saved"} =>
         Cardinality(LookupsRunning) <= META_WORKERS
    /\ OneMetadataOutcomeEach
    /\ HeadingsMatchCitations
    /\ BibliographyMatchesHeadings

\* a saved report of papers in two categories where the search failed for
\* one paper and found the authors of a later one
C22_Witness ==
    /\ fin.phase = "saved"
    /\ Len(fin.papers) >= 2
    /\ \E j, k \in 1..Len(fin.bibliography) :
         /\ j < k
         /\ fin.papers[fin.headings[j].paper].category
              # fin.papers[fin.headings[k].paper].category
         /\ fin.bibliography[j].cit.kind = "stub"
         /\ ~fin.meta[fin.headings[j].paper].found
         /\ fin.bibliography[k].cit.kind = "full"
         /\ fin.bibliography[k].number = k

====
